---- MODULE Spec2Model ----
(***************************************************************************)
(* The request-observability pipeline of backend/app.py: the Flask         *)
(* before_request / after_request hooks, the route handlers, the           *)
(* SQLAlchemy cursor hooks that time every statement, and the Prometheus   *)
(* registry they write to.                                                 *)
(*                                                                         *)
(* One worker handles one request end to end.  pc[w] is the position of    *)
(* worker w in the request pipeline; everything a request owns (request,   *)
(* g, the context-local span stack, the session) is indexed by the worker. *)
(* The registry and the task store are shared by all workers.              *)
(***************************************************************************)
EXTENDS Integers, Sequences, FiniteSets, TLC

\* ------------------------------------------------------------------ bounds
NumWorkers == 2
MaxRequests == 2
MaxClock == 1

Workers == 1..NumWorkers

\* ------------------------------------------------------------- small tools
NoKey == <<>>
EmptyFn == [x \in {} |-> 0]

Val(c, k) == IF k \in DOMAIN c THEN c[k] ELSE 0

RECURSIVE SumOver(_, _)
SumOver(c, ks) ==
    IF ks = {} THEN 0
    ELSE LET k == CHOOSE x \in ks : TRUE IN c[k] + SumOver(c, ks \ {k})

Total(c) == SumOver(c, DOMAIN c)

MaxOf(S) == IF S = {} THEN 0 ELSE CHOOSE x \in S : \A y \in S : y <= x

\* str(n) of a three-digit status code, digit by digit.
Digit(d) == <<"0", "1", "2", "3", "4", "5", "6", "7", "8", "9">>[d + 1]
Str3(n) == Digit(n \div 100) \o Digit((n \div 10) % 10) \o Digit(n % 10)

\* ------------------------------------------------ statement classification
\* A statement text is a sequence of characters.
LowerCase == <<"a", "b", "c", "d", "e", "f", "g", "h", "i", "j", "k", "l", "m",
               "n", "o", "p", "q", "r", "s", "t", "u", "v", "w", "x", "y", "z">>
UpperCase == <<"A", "B", "C", "D", "E", "F", "G", "H", "I", "J", "K", "L", "M",
               "N", "O", "P", "Q", "R", "S", "T", "U", "V", "W", "X", "Y", "Z">>
Whitespace == {" ", "\t", "\n", "\r"}

UpperChar(c) ==
    IF \E i \in 1..26 : LowerCase[i] = c
    THEN UpperCase[CHOOSE i \in 1..26 : LowerCase[i] = c]
    ELSE c

\* str.upper()
Upper(s) == [i \in 1..Len(s) |-> UpperChar(s[i])]

\* str.lstrip()
RECURSIVE LStrip(_)
LStrip(s) ==
    IF s # <<>> /\ Head(s) \in Whitespace THEN LStrip(Tail(s)) ELSE s

\* str.startswith(p)
StartsWith(s, p) == Len(s) >= Len(p) /\ SubSeq(s, 1, Len(p)) = p

KwSelect == <<"S", "E", "L", "E", "C", "T">>
KwInsert == <<"I", "N", "S", "E", "R", "T">>
KwUpdate == <<"U", "P", "D", "A", "T", "E">>
KwDelete == <<"D", "E", "L", "E", "T", "E">>

\* The op label _after_cursor_execute computes from the statement text.
\* A classifier whose default is a write: what is neither INSERT nor DELETE
\* is taken for an UPDATE.
ClassifyWriteDefault(statement) ==
    LET s == Upper(LStrip(statement)) IN
    IF StartsWith(s, KwInsert) THEN "INSERT"
    ELSE IF StartsWith(s, KwDelete) THEN "DELETE"
    ELSE "UPDATE"

Classify(statement) ==
    LET s == Upper(LStrip(statement)) IN
    IF StartsWith(s, KwInsert) THEN "INSERT"
    ELSE IF StartsWith(s, KwUpdate) THEN "UPDATE"
    ELSE IF StartsWith(s, KwDelete) THEN "DELETE"
    ELSE "SELECT"

\* The statements the application sends through the engine.
SqlTail == <<" ", "t", "a", "s", "k", "s">>
SqlSelect == KwSelect \o SqlTail        \* the ORM's SELECT ... FROM tasks
SqlInsert == KwInsert \o SqlTail        \* the ORM's INSERT INTO tasks
SqlUpdate == KwUpdate \o SqlTail        \* the ORM's UPDATE tasks SET
SqlDelete == KwDelete \o SqlTail        \* the ORM's DELETE FROM tasks
SmokeRead == KwSelect \o <<" ", "C", "O", "U", "N", "T">>
SmokeInsert == KwInsert \o <<" ", "I", "N", "T", "O">>
SmokeDelete == KwDelete \o <<" ", "F", "R", "O", "M">>

\* format(n, '0<width>x')
HexDigit(d) == <<"0", "1", "2", "3", "4", "5", "6", "7",
                 "8", "9", "a", "b", "c", "d", "e", "f">>[d + 1]
RECURSIVE Hex(_, _)
Hex(n, width) ==
    IF width = 0 THEN "" ELSE Hex(n \div 16, width - 1) \o HexDigit(n % 16)

\* ---------------------------------------------------------------- routing
\* The url map in declaration order: the static-file rule Flask(__name__) adds
\* for its default static folder, then the rules of the @app.route decorators.
IntRule == "<int:task_id>"
PathRule == "<path:filename>"
UrlMap == <<
    [rule |-> <<"static", PathRule>>,        methods |-> {"GET"},    endpoint |-> "static"],
    [rule |-> <<"health">>,                  methods |-> {"GET"},    endpoint |-> "health_check"],
    [rule |-> <<"api", "tasks">>,            methods |-> {"GET"},    endpoint |-> "get_tasks"],
    [rule |-> <<"api", "tasks", IntRule>>,   methods |-> {"GET"},    endpoint |-> "get_task"],
    [rule |-> <<"api", "tasks">>,            methods |-> {"POST"},   endpoint |-> "create_task"],
    [rule |-> <<"api", "tasks", IntRule>>,   methods |-> {"PUT"},    endpoint |-> "update_task"],
    [rule |-> <<"api", "tasks", IntRule>>,   methods |-> {"DELETE"}, endpoint |-> "delete_task"],
    [rule |-> <<"api", "simulate-error">>,   methods |-> {"GET"},    endpoint |-> "simulate_error"],
    [rule |-> <<"api", "simulate-slow">>,    methods |-> {"GET"},    endpoint |-> "simulate_slow"],
    [rule |-> <<"metrics">>,                 methods |-> {"GET"},    endpoint |-> "metrics"],
    [rule |-> <<"api", "smoke", "db">>,      methods |-> {"POST"},   endpoint |-> "db_smoke"] >>

Endpoints == {UrlMap[i].endpoint : i \in DOMAIN UrlMap}
NoEndpoint == "None"

\* int(text) where text is a decimal numeral; anything else raises ValueError.
IntOf == ("0" :> 0) @@ ("1" :> 1) @@ ("2" :> 2) @@ ("3" :> 3) @@ ("200" :> 200)
         @@ ("999999" :> 999999) @@ ("-1" :> (0 - 1))
IsInt(text) == text \in DOMAIN IntOf

\* The int converter of a rule takes unsigned digits only.
SegMatch(r, seg) == IF r = IntRule THEN IsInt(seg) /\ IntOf[seg] >= 0 ELSE r = seg
\* A rule ending in a path converter takes every remaining segment, one at
\* least.
RuleMatch(rule, path) ==
    IF rule[Len(rule)] = PathRule
    THEN /\ Len(path) >= Len(rule)
         /\ \A i \in 1..(Len(rule) - 1) : SegMatch(rule[i], path[i])
    ELSE Len(rule) = Len(path) /\ \A i \in 1..Len(rule) : SegMatch(rule[i], path[i])

\* werkzeug's match: the endpoint of the first rule matching path and method;
\* 405 when only the path matches some rule, 404 when nothing does.
Route(method, path) ==
    LET byPath == {i \in DOMAIN UrlMap : RuleMatch(UrlMap[i].rule, path)}
        full == {i \in byPath : method \in UrlMap[i].methods}
    IN  IF full # {} THEN [endpoint |-> UrlMap[CHOOSE i \in full : \A j \in full : i <= j].endpoint,
                           error |-> 0]
        ELSE IF byPath # {} THEN [endpoint |-> NoEndpoint, error |-> 405]
        ELSE [endpoint |-> NoEndpoint, error |-> 404]

\* --------------------------------------------------------------- requests
Fields == {"title", "description", "completed"}
\* A JSON body: an object holding some of the task fields, the literal null,
\* or no body at all.
Body(json, has) == [json |-> json, has |-> has]
NoBody == Body("absent", {})
Bodies == {Body("object", h) : h \in SUBSET Fields} \cup {Body("null", {})}
\* The values a request body carries for the fields it holds.
BodyTitle == "t2"
BodyDescription == "d2"
BodyCompleted == TRUE

NoArg == "absent"
Req(method, path, body, delay, ops, type) ==
    [method |-> method, path |-> path, body |-> body,
     delay |-> delay, ops |-> ops, type |-> type]
Plain(method, path) == Req(method, path, NoBody, NoArg, NoArg, NoArg)

IdSegs == {"1", "999999"}
CreateBodies == {Body("null", {}), Body("object", {}), Body("object", {"description"}),
                 Body("object", {"title"}), Body("object", {"title", "description"})}
SmokeArgs == {<<"2", NoArg>>, <<"1", "read">>, <<"1", "READ">>, <<"1", "write">>,
              <<"1", "zz">>, <<"x", NoArg>>}

Requests ==
    {Plain("GET", <<"health">>), Plain("GET", <<"api", "tasks">>),
     Plain("GET", <<"api", "simulate-error">>), Plain("GET", <<"metrics">>),
     Plain("GET", <<"nope">>), Plain("POST", <<"health">>),
     Plain("GET", <<"api", "tasks", "abc">>)}
    \cup {Plain(m, <<"api", "tasks", i>>) : m \in {"GET", "DELETE"}, i \in IdSegs}
    \cup {Req("POST", <<"api", "tasks">>, b, NoArg, NoArg, NoArg) : b \in CreateBodies}
    \cup {Req("PUT", <<"api", "tasks", "1">>, b, NoArg, NoArg, NoArg) : b \in Bodies}
    \cup {Req("PUT", <<"api", "tasks", "999999">>, Body("object", {"title"}), NoArg, NoArg, NoArg)}
    \cup {Req("GET", <<"api", "simulate-slow">>, NoBody, d, NoArg, NoArg) :
            d \in {NoArg, "0.1", "abc"}}
    \cup {Req("POST", <<"api", "smoke", "db">>, NoBody, NoArg, a[1], a[2]) : a \in SmokeArgs}
NoReq == Plain("-", <<>>)

\* ------------------------------------------------------------------ state
VARIABLES
    store,          \* the tasks table: id -> row (committed rows only)
    received,       \* requests accepted so far; also the source of trace ids
    prom_http_requests_total,               \* Counter   {method, endpoint, status_code}
    prom_http_request_duration_seconds,     \* Histogram {method, endpoint, status_code}: observation count
    prom_http_errors_total,                 \* Counter   {method, endpoint, status_code}
    prom_db_query_duration_seconds,         \* Histogram {operation}: observation count
    handled,        \* responses delivered, by (method, endpoint or "unknown", status)
    delivered,      \* the exchanges completed so far, in order: request and response
    executed,       \* statements the engine has executed, by statement text
    pc,             \* per worker: position in the request pipeline
    request,        \* per worker: flask.request
    start_time,     \* per worker: request.start_time
    prom_start_time,\* per worker: g.prom_start_time
    span_stack,     \* per worker: the context-local stack of active spans
    response,       \* per worker: the response produced for the request
    trail,          \* per worker: the log records and span events of this request, in order
    probe           \* the execution context handed to the cursor hooks when they are run on their own

registry == <<prom_http_requests_total, prom_http_request_duration_seconds,
              prom_http_errors_total, prom_db_query_duration_seconds>>
httpSeries == <<prom_http_requests_total, prom_http_request_duration_seconds,
                prom_http_errors_total>>
reqctx == <<request, start_time, prom_start_time, span_stack, response>>
service == <<store, received, registry, handled, delivered, executed, pc, reqctx, trail>>
vars == <<service, probe>>

Unset == -1

\* ------------------------------------------------------------- task rows
\* A row built without its description.
TaskWithoutDescription(title, description, completed, created_at) ==
    [title |-> title, description |-> "",
     completed |-> completed, created_at |-> created_at]

Task(title, description, completed, created_at) ==
    [title |-> title, description |-> description,
     completed |-> completed, created_at |-> created_at]

\* datetime.isoformat() of the instant t
IsoFormat(t) == "1970-01-01T00:00:0" \o Digit(t)

\* A dictionary whose created_at is taken when it is rendered, not from the
\* row.
to_dict_stamped(id, row) ==
    [id |-> id, title |-> row.title, description |-> row.description,
     completed |-> row.completed, created_at |-> IsoFormat(received)]

\* Task.to_dict
to_dict(id, row) ==
    [id |-> id, title |-> row.title, description |-> row.description,
     completed |-> row.completed, created_at |-> IsoFormat(row.created_at)]

\* The tables a freshly started service may find in /app/data/tasks.db.
InitStores == {EmptyFn, (1 :> Task("a", "b", FALSE, 0))}

\* SQLite's rowid for a new row of an INTEGER PRIMARY KEY table.
NewId(st) == MaxOf(DOMAIN st) + 1

\* ------------------------------------------------------------- responses
EmptySnapshot == [requests |-> EmptyFn, duration |-> EmptyFn,
                  errors |-> EmptyFn, db |-> EmptyFn]
Resp(status, error, tasks, snapshot) ==
    [status |-> status, error |-> error, tasks |-> tasks, snapshot |-> snapshot]
ErrorResp(status, error) == Resp(status, error, <<>>, EmptySnapshot)
OkResp(status, tasks) == Resp(status, "", tasks, EmptySnapshot)
NoResp == ErrorResp(0, "")

\* ------------------------------------------------------------- the trail
Ev(ev, name, key, trace, span) ==
    [ev |-> ev, name |-> name, key |-> key, trace |-> trace, span |-> span]
Mark(ev, name) == Ev(ev, name, NoKey, "", "")

\* ------------------------------------------------------------ the spans
Span(trace, id, name) == [trace |-> trace, id |-> id, name |-> name]
InvalidSpan == Span(0, 0, "invalid")

\* A current span kept in one place for the whole process instead of in each
\* worker's context: the span of the request that started last.
SharedCurrentSpan(w) ==
    LET live == {v \in Workers : span_stack[v] # <<>>} IN
    IF live = {} THEN InvalidSpan
    ELSE LET v == CHOOSE x \in live :
                    \A y \in live : span_stack[y][1].trace <= span_stack[x][1].trace
         IN span_stack[v][Len(span_stack[v])]

\* trace.get_current_span(): the innermost span of this worker's context.
get_current_span(w) ==
    IF span_stack[w] = <<>> THEN InvalidSpan ELSE span_stack[w][Len(span_stack[w])]

\* tracer.start_as_current_span(name): a child of the active span, made active.
start_as_current_span(stack, name) ==
    IF stack = <<>> THEN <<Span(received + 1, 16 * (received + 1), name)>>
    ELSE Append(stack, Span(stack[Len(stack)].trace, stack[Len(stack)].id + 1, name))

\* A with-block whose exit leaves its span the active one.
end_span_attached(stack) == stack

\* Leaving the with-block: the span ends and its parent is active again.
end_span(stack) == SubSeq(stack, 1, Len(stack) - 1)

\* ------------------------------------------------- per-request shorthands
Endpoint(w) == Route(request[w].method, request[w].path).endpoint
ViewId(w) == IntOf[request[w].path[3]]

\* Labels without the fallback for an unmatched path.
LabelsNoFallback(w) ==
    <<request[w].method, Endpoint(w), Str3(response[w].status)>>

\* Labels whose endpoint is taken from the raw path: its last segment.
LabelsRawPath(w) ==
    <<request[w].method, request[w].path[Len(request[w].path)],
      Str3(response[w].status)>>

\* endpoint = request.endpoint or "unknown"; status_code = str(response.status_code)
Labels(w) ==
    <<request[w].method,
      IF Endpoint(w) = NoEndpoint THEN "unknown" ELSE Endpoint(w),
      Str3(response[w].status)>>

HasStartTime(w) == start_time[w] # Unset
HasPromStartTime(w) == prom_start_time[w] # Unset

\* Error thresholds other than the program's.
IsErrorAbove400(status) == status > 400
IsServerError(status) == status >= 500

\* response.status_code >= 400
IsError(status) == status >= 400

\* ----------------------------------------------------------- the registry
\* An increment that is a separate read and write: of two workers that are at
\* the same update of the same series, one writes over the other.
IncRacing(c, k) ==
    IF \E v, w \in Workers :
         /\ v # w
         /\ pc[v] = pc[w]
         /\ pc[v] \in {"after_request", "inc_errors"}
         /\ Labels(v) = k
         /\ Labels(w) = k
    THEN c
    ELSE IF k \in DOMAIN c THEN [c EXCEPT ![k] = @ + 1] ELSE c @@ (k :> 1)

\* An observation recorded twice.
ObserveTwice(h, k) == IF k \in DOMAIN h THEN [h EXCEPT ![k] = @ + 2] ELSE h @@ (k :> 2)

\* Counter.labels(...).inc(): the series is created on its first use and then
\* counts one more.  prometheus_client updates a series under its mutex, so
\* the update is one step.
Inc(c, k) == IF k \in DOMAIN c THEN [c EXCEPT ![k] = @ + 1] ELSE c @@ (k :> 1)

\* Histogram.labels(...).observe(v): one more observation in the series.
Observe(h, k) == IF k \in DOMAIN h THEN [h EXCEPT ![k] = @ + 1] ELSE h @@ (k :> 1)

\* One more in a tally kept beside the program (handled, executed).
Tally(b, k) == IF k \in DOMAIN b THEN [b EXCEPT ![k] = @ + 1] ELSE b @@ (k :> 1)

\* ------------------------------------------------------ DB operation timer
NoContext == [query_start_time |-> Unset]

\* A before-hook that attaches nothing.
NoStartInstant(context) == context

\* _before_cursor_execute: perf_counter() is attached to the execution context
\* (the instant is counted from this read).
before_cursor_execute(context) == [context EXCEPT !.query_start_time = 0]

\* An after-hook without the guard: it observes whether or not a start
\* instant is attached.
after_cursor_execute_unguarded(hist, statement, context) ==
    Observe(hist, <<Classify(statement)>>)

\* _after_cursor_execute
after_cursor_execute(hist, statement, context) ==
    IF context.query_start_time = Unset THEN hist
    ELSE Observe(hist, <<Classify(statement)>>)

\* One statement through an engine on which the listeners were registered
\* twice.
cursor_execute_twice(hist, statement) ==
    after_cursor_execute(after_cursor_execute(hist, statement,
                                              before_cursor_execute(NoContext)),
                         statement, before_cursor_execute(NoContext))

\* One statement through the engine with both listeners registered.
cursor_execute(hist, statement) ==
    after_cursor_execute(hist, statement, before_cursor_execute(NoContext))

RECURSIVE ExecuteAll(_, _)
ExecuteAll(hist, stmts) ==
    IF stmts = <<>> THEN hist
    ELSE ExecuteAll(cursor_execute(hist, Head(stmts)), Tail(stmts))

RECURSIVE CountAll(_, _)
CountAll(bag, stmts) ==
    IF stmts = <<>> THEN bag ELSE CountAll(Tally(bag, Head(stmts)), Tail(stmts))

\* ------------------------------------------------------ request pipeline
\* time.time() / datetime.utcnow(): instants are counted from the first clock
\* read of the request; a read returns the instant of the previous read of the
\* same request or a later one.
ClockReads(previous) == {t \in 0..MaxClock : t >= previous}

LogEv(w, level, message) ==
    Ev("log", message, <<level>>,
       Hex(get_current_span(w).trace, 32), Hex(get_current_span(w).id, 16))

\* A request arrives at an idle worker: the request context is pushed, the url
\* is matched, and FlaskInstrumentor's hook (registered before the
\* application's own) starts the server span in this worker's context.
Accept(w, r) ==
    /\ pc[w] = "idle"
    /\ received' = received + 1
    /\ request' = [request EXCEPT ![w] = r]
    /\ span_stack' = [span_stack EXCEPT ![w] = start_as_current_span(<<>>, "server")]
    /\ pc' = [pc EXCEPT ![w] = "before_request"]
    /\ UNCHANGED <<probe, store, registry, handled, delivered, executed, start_time,
                   prom_start_time, response, trail>>

\* The requests a run admits.
Receive(w, r) == received < MaxRequests /\ Accept(w, r)

\* An entry hook that already counts the request, before any status exists.
before_request_counting(w) ==
    /\ pc[w] = "before_request"
    /\ \E t1 \in {0} : \E t2 \in ClockReads(t1) :
         /\ start_time' = [start_time EXCEPT ![w] = t1]
         /\ prom_start_time' = [prom_start_time EXCEPT ![w] = t2]
    /\ trail' = [trail EXCEPT ![w] = Append(@, LogEv(w, "INFO", "Incoming request"))]
    /\ prom_http_requests_total' = Inc(prom_http_requests_total, Labels(w))
    /\ pc' = [pc EXCEPT ![w] = "dispatch"]
    /\ UNCHANGED <<probe, store, received, prom_http_request_duration_seconds,
                   prom_http_errors_total, prom_db_query_duration_seconds,
                   handled, delivered, executed, request, span_stack, response>>

\* before_request
before_request(w) ==
    /\ pc[w] = "before_request"
    /\ \E t1 \in {0} : \E t2 \in ClockReads(t1) :
         /\ start_time' = [start_time EXCEPT ![w] = t1]
         /\ prom_start_time' = [prom_start_time EXCEPT ![w] = t2]
    /\ trail' = [trail EXCEPT ![w] = Append(@, LogEv(w, "INFO", "Incoming request"))]
    /\ pc' = [pc EXCEPT ![w] = "dispatch"]
    /\ UNCHANGED <<probe, store, received, registry, handled, delivered, executed, request,
                   span_stack, response>>

\* What every view function leaves behind: the statements it got through the
\* engine (each timed by the cursor hooks), the table, the response, and the
\* events of its span.  A view that opens a span (name # NoSpan) has closed it
\* when it returns or raises.
NoSpan == ""

\* A framework that skips the after_request functions for the 500 it makes of
\* an exception that left the view.
SkipAfterUnhandled(events) ==
    IF \E i \in DOMAIN events : events[i].ev = "unhandled" THEN "finalize"
    ELSE "after_request"

\* Flask runs the after_request functions on every response it finalizes, the
\* 500 it makes of an exception that left the view included.
process_response(events) == "after_request"

SpanEvents(stack, name, events) ==
    IF name = NoSpan THEN events
    ELSE LET child == start_as_current_span(stack, name)[Len(stack) + 1] IN
         <<Ev("span_start", name, NoKey, Hex(child.trace, 32), Hex(child.id, 16))>>
         \o events
         \o <<Ev("span_end", name, NoKey, Hex(child.trace, 32), Hex(child.id, 16))>>

View(w, name, stmts, newStore, rsp, events) ==
    /\ store' = newStore
    /\ prom_db_query_duration_seconds' =
           ExecuteAll(prom_db_query_duration_seconds, stmts)
    /\ executed' = CountAll(executed, stmts)
    /\ response' = [response EXCEPT ![w] = rsp]
    /\ span_stack' = [span_stack EXCEPT ![w] =
           IF name = NoSpan THEN @ ELSE end_span(start_as_current_span(@, name))]
    /\ trail' = [trail EXCEPT ![w] = @ \o SpanEvents(span_stack[w], name, events)]
    /\ pc' = [pc EXCEPT ![w] = process_response(events)]
    /\ UNCHANGED <<probe, received, httpSeries, handled, delivered,
                   request, start_time,
                   prom_start_time>>

\* span.record_exception(e); span.set_status(Status(StatusCode.ERROR, str(e)))
SpanError(message) == <<Mark("span_exception", message), Mark("span_status_error", message)>>

\* No rule matched (404) or the method is not allowed (405): werkzeug's
\* routing exception becomes the response; no view function runs.
routing_exception(w) ==
    /\ pc[w] = "dispatch"
    /\ Endpoint(w) = NoEndpoint
    /\ response' = [response EXCEPT ![w] =
           ErrorResp(Route(request[w].method, request[w].path).error, "routing")]
    /\ pc' = [pc EXCEPT ![w] = "after_request"]
    /\ UNCHANGED <<probe, store, received, registry, handled, delivered, executed, request,
                   start_time, prom_start_time, span_stack, trail>>

\* health_check
health_check(w) ==
    /\ pc[w] = "dispatch"
    /\ Endpoint(w) = "health_check"
    /\ View(w, "health_check", <<>>, store, OkResp(200, <<>>), <<>>)

\* simulate_error
simulate_error(w) ==
    /\ pc[w] = "dispatch"
    /\ Endpoint(w) = "simulate_error"
    /\ View(w, "simulate_error", <<>>, store,
               ErrorResp(500, "This is a simulated error"),
               <<Ev("log", "Simulated error triggered for testing", <<"ERROR">>, "", ""),
                 Mark("span_status_error", "Simulated error")>>)

\* float(text) accepts a decimal numeral.
IsFloat(text) == text \in {"0.1", "2.0"} \cup DOMAIN IntOf

\* simulate_slow: float() of an unparsable delay raises out of the view; the
\* with-block records it on the span and Flask answers 500.
simulate_slow(w) ==
    /\ pc[w] = "dispatch"
    /\ Endpoint(w) = "simulate_slow"
    /\ LET delay == IF request[w].delay = NoArg THEN "2.0" ELSE request[w].delay IN
       IF IsFloat(delay)
       THEN View(w, "simulate_slow_request", <<>>, store, OkResp(200, <<>>),
                    <<Ev("log", "Simulating slow request", <<"INFO">>, "", "")>>)
       ELSE View(w, "simulate_slow_request", <<>>, store,
                    ErrorResp(500, "Internal Server Error"),
                    SpanError("ValueError") \o <<Mark("unhandled", "ValueError")>>)

\* The rows in rowid order, as dictionaries.
RECURSIVE RowDicts(_, _)
RowDicts(st, ids) ==
    IF ids = {} THEN <<>>
    ELSE LET i == CHOOSE x \in ids : \A y \in ids : x <= y IN
         <<to_dict(i, st[i])>> \o RowDicts(st, ids \ {i})

\* Every database call may raise (a locked or unreadable file): fail = j says
\* that the j-th call of the view raises, fail = 0 that none does.  The views
\* below are written with that choice.
\* get_tasks
get_tasks(w) ==
    /\ pc[w] = "dispatch"
    /\ Endpoint(w) = "get_tasks"
    /\ \E fail \in 0..1 :
         IF fail = 1
         THEN View(w, "get_all_tasks", <<>>, store,
                      ErrorResp(500, "Failed to retrieve tasks"), SpanError("db"))
         ELSE View(w, "get_all_tasks", <<SqlSelect>>, store,
                      OkResp(200, RowDicts(store, DOMAIN store)), <<>>)

\* get_task
get_task(w) ==
    /\ pc[w] = "dispatch"
    /\ Endpoint(w) = "get_task"
    /\ \E fail \in 0..1 :
         IF fail = 1
         THEN View(w, "get_task_by_id", <<>>, store,
                      ErrorResp(500, "Failed to retrieve task"), SpanError("db"))
         ELSE IF ViewId(w) \notin DOMAIN store
         THEN View(w, "get_task_by_id", <<SqlSelect>>, store,
                      ErrorResp(404, "Task not found"), <<>>)
         ELSE View(w, "get_task_by_id", <<SqlSelect>>, store,
                      OkResp(200, <<to_dict(ViewId(w), store[ViewId(w)])>>), <<>>)

\* request.get_json() is falsy for null and for the empty object.
Falsy(body) == body.json # "object" \/ body.has = {}

\* create_task: validation, then INSERT and COMMIT inside db.session.commit(),
\* then the SELECT that reloads the expired instance when new_task.id is read.
create_task(w) ==
    /\ pc[w] = "dispatch"
    /\ Endpoint(w) = "create_task"
    /\ LET data == request[w].body IN
       IF Falsy(data) \/ "title" \notin data.has
       THEN View(w, "create_task", <<>>, store,
                    ErrorResp(400, "Title is required"),
                    <<Mark("span_attribute", "validation.failed")>>)
       ELSE \E fail \in 0..3 : \E t \in ClockReads(prom_start_time[w]) :
            LET id == NewId(store)
                row == Task(BodyTitle,
                            IF "description" \in data.has THEN BodyDescription ELSE "",
                            IF "completed" \in data.has THEN BodyCompleted ELSE FALSE,
                            t)
                after == store @@ (id :> row)
                err == ErrorResp(500, "Failed to create task")
            IN  CASE fail = 1 -> View(w, "create_task", <<>>, store, err, SpanError("db"))
                  [] fail = 2 -> View(w, "create_task", <<SqlInsert>>, store, err, SpanError("db"))
                  [] fail = 3 -> View(w, "create_task", <<SqlInsert>>, after, err, SpanError("db"))
                  [] OTHER    -> View(w, "create_task", <<SqlInsert, SqlSelect>>, after,
                                         OkResp(201, <<to_dict(id, row)>>), <<>>)

\* An update that replaces the row: a field the body does not supply is reset
\* to its default.
AssignedReplace(row, data) ==
    [row EXCEPT !.title = IF "title" \in data.has THEN BodyTitle ELSE "",
                !.description = IF "description" \in data.has THEN BodyDescription ELSE "",
                !.completed = IF "completed" \in data.has THEN BodyCompleted ELSE FALSE]

\* The row update_task leaves: only the supplied fields are assigned.
Assigned(row, data) ==
    [row EXCEPT !.title = IF "title" \in data.has THEN BodyTitle ELSE @,
                !.description = IF "description" \in data.has THEN BodyDescription ELSE @,
                !.completed = IF "completed" \in data.has THEN BodyCompleted ELSE @]

\* update_task: SELECT by id; the assignments; UPDATE (only when an attribute
\* really changed) and COMMIT inside db.session.commit(); the SELECT that
\* reloads the expired instance for to_dict().
update_task(w) ==
    /\ pc[w] = "dispatch"
    /\ Endpoint(w) = "update_task"
    /\ LET id == ViewId(w)
           data == request[w].body
           err == ErrorResp(500, "Failed to update task")
       IN \E fail \in 0..4 :
          IF fail = 1 THEN View(w, "update_task", <<>>, store, err, SpanError("db"))
          ELSE IF id \notin DOMAIN store
          THEN View(w, "update_task", <<SqlSelect>>, store,
                       ErrorResp(404, "Task not found"), <<>>)
          ELSE IF data.json # "object"
          THEN View(w, "update_task", <<SqlSelect>>, store, err, SpanError("TypeError"))
          ELSE LET row == Assigned(store[id], data)
                   flush == IF row = store[id] THEN <<>> ELSE <<SqlUpdate>>
                   after == [store EXCEPT ![id] = row]
               IN CASE fail = 2 -> View(w, "update_task", <<SqlSelect>>, store, err, SpanError("db"))
                    [] fail = 3 -> View(w, "update_task", <<SqlSelect>> \o flush, store, err, SpanError("db"))
                    [] fail = 4 -> View(w, "update_task", <<SqlSelect>> \o flush, after, err, SpanError("db"))
                    [] OTHER    -> View(w, "update_task", <<SqlSelect>> \o flush \o <<SqlSelect>>, after,
                                           OkResp(200, <<to_dict(id, row)>>), <<>>)

\* delete_task: SELECT by id; DELETE and COMMIT inside db.session.commit().
delete_task(w) ==
    /\ pc[w] = "dispatch"
    /\ Endpoint(w) = "delete_task"
    /\ LET id == ViewId(w)
           err == ErrorResp(500, "Failed to delete task")
       IN \E fail \in 0..3 :
          IF fail = 1 THEN View(w, "delete_task", <<>>, store, err, SpanError("db"))
          ELSE IF id \notin DOMAIN store
          THEN View(w, "delete_task", <<SqlSelect>>, store,
                       ErrorResp(404, "Task not found"), <<>>)
          ELSE CASE fail = 2 -> View(w, "delete_task", <<SqlSelect>>, store, err, SpanError("db"))
                 [] fail = 3 -> View(w, "delete_task", <<SqlSelect, SqlDelete>>, store, err, SpanError("db"))
                 [] OTHER    -> View(w, "delete_task", <<SqlSelect, SqlDelete>>,
                                        [i \in DOMAIN store \ {id} |-> store[i]],
                                        OkResp(200, <<>>), <<>>)

\* Flask's view for the static rule: there is no static folder beside app.py,
\* so send_from_directory raises NotFound and Flask answers 404.
send_static_file(w) ==
    /\ pc[w] = "dispatch"
    /\ Endpoint(w) = "static"
    /\ View(w, NoSpan, <<>>, store, ErrorResp(404, "Not Found"), <<>>)

\* A body rendered once the request it answers has been counted.
RenderCounted ==
    [requests |-> Inc(prom_http_requests_total, <<"GET", "metrics", "200">>),
     duration |-> Observe(prom_http_request_duration_seconds, <<"GET", "metrics", "200">>),
     errors |-> prom_http_errors_total,
     db |-> prom_db_query_duration_seconds]

\* generate_latest(): the registry as it is when the body is rendered.
Render == [requests |-> prom_http_requests_total,
           duration |-> prom_http_request_duration_seconds,
           errors |-> prom_http_errors_total,
           db |-> prom_db_query_duration_seconds]

\* metrics
metrics(w) ==
    /\ pc[w] = "dispatch"
    /\ Endpoint(w) = "metrics"
    /\ View(w, NoSpan, <<>>, store, Resp(200, "", <<>>, Render), <<>>)

\* str.lower() of the type argument
LowerArg(text) == IF text = "READ" THEN "read" ELSE text

Repeat(x, n) == [i \in 1..n |-> x]

\* str(i) of a natural number.
RECURSIVE Decimal(_)
Decimal(i) == IF i < 10 THEN Digit(i) ELSE Decimal(i \div 10) \o Digit(i % 10)

\* f"smoke-{i}"
SmokeTitle(i) == "smoke-" \o Decimal(i)

\* title LIKE 'smoke-%': SQLite's LIKE ignores the case of ASCII letters.
LikeSmoke(title) ==
    title \in {"smoke-mine", "SMOKE-OLD"} \cup {SmokeTitle(i) : i \in 0..199}

\* The table as the transaction sees it after the inserts i .. n-1.
RECURSIVE InsertSmoke(_, _, _)
InsertSmoke(st, i, n) ==
    IF i >= n THEN st
    ELSE InsertSmoke(st @@ (NewId(st) :> Task(SmokeTitle(i), "smoke-test", FALSE, 0)),
                     i + 1, n)

\* ... and after DELETE FROM tasks WHERE title LIKE 'smoke-%'.
DeleteSmoke(st) == [i \in {j \in DOMAIN st : ~LikeSmoke(st[j].title)} |-> st[i]]

\* A transaction that ends in a commit: the table is what the transaction
\* made of it.
trans_commit(begun, working) == working

\* trans.rollback(): the table is what it was when the transaction began.
trans_rollback(begun, working) == begun

\* db_smoke: read_ops SELECTs on one connection; on a second one write_ops
\* INSERTs and one DELETE inside a transaction that is always rolled back.
db_smoke(w) ==
    /\ pc[w] = "dispatch"
    /\ Endpoint(w) = "db_smoke"
    /\ LET arg == IF request[w].ops = NoArg THEN "200" ELSE request[w].ops IN
       IF ~IsInt(arg)
       THEN View(w, NoSpan, <<>>, store, ErrorResp(500, "Internal Server Error"),
                    <<Mark("unhandled", "ValueError")>>)
       ELSE LET ops == IntOf[arg]
                mode == LowerArg(IF request[w].type = NoArg THEN "rw" ELSE request[w].type)
                read_ops == IF mode = "read" THEN ops ELSE IF mode = "rw" THEN ops \div 2 ELSE 0
                write_ops == IF mode = "read" THEN 0 ELSE IF mode = "write" THEN ops ELSE ops - read_ops
                all == Repeat(SmokeRead, read_ops) \o Repeat(SmokeInsert, write_ops)
                           \o <<SmokeDelete>>
            IN \E fail \in 0..Len(all) :
               IF fail = 0
               THEN View(w, NoSpan, all,
                            trans_rollback(store, DeleteSmoke(InsertSmoke(store, 0, write_ops))),
                            OkResp(200, <<>>),
                            <<Ev("log", "DB smoke test completed", <<"INFO">>, "", "")>>)
               ELSE View(w, NoSpan, SubSeq(all, 1, fail - 1),
                            IF fail <= Len(Repeat(SmokeRead, read_ops)) THEN store
                            ELSE trans_rollback(store,
                                     InsertSmoke(store, 0,
                                         fail - 1 - Len(Repeat(SmokeRead, read_ops)))),
                            ErrorResp(500, "DB smoke test failed"),
                            <<Ev("log", "DB smoke test failed", <<"ERROR">>, "", "")>>)

\* ---------------------------------------------------------- after_request
\* after_request, first update: prom_http_requests_total.labels(...).inc()
after_request_count(w) ==
    /\ pc[w] = "after_request"
    /\ IF HasStartTime(w) /\ HasPromStartTime(w)
       THEN /\ prom_http_requests_total' = Inc(prom_http_requests_total, Labels(w))
            /\ pc' = [pc EXCEPT ![w] = "observe_duration"]
       ELSE /\ UNCHANGED prom_http_requests_total
            /\ pc' = [pc EXCEPT ![w] =
                   IF HasStartTime(w) THEN "log_completed" ELSE "finalize"]
    /\ UNCHANGED <<probe, store, received, prom_http_request_duration_seconds,
                   prom_http_errors_total, prom_db_query_duration_seconds,
                   handled, delivered, executed, reqctx, trail>>

\* after_request, second update: prom_http_request_duration_seconds...observe()
after_request_duration(w) ==
    /\ pc[w] = "observe_duration"
    /\ prom_http_request_duration_seconds' =
           Observe(prom_http_request_duration_seconds, Labels(w))
    /\ pc' = [pc EXCEPT ![w] =
           IF IsError(response[w].status) THEN "inc_errors" ELSE "log_completed"]
    /\ UNCHANGED <<probe, store, received, prom_http_requests_total,
                   prom_http_errors_total, prom_db_query_duration_seconds,
                   handled, delivered, executed, reqctx, trail>>

\* after_request, third update: prom_http_errors_total.labels(...).inc()
after_request_errors(w) ==
    /\ pc[w] = "inc_errors"
    /\ prom_http_errors_total' = Inc(prom_http_errors_total, Labels(w))
    /\ pc' = [pc EXCEPT ![w] = "log_completed"]
    /\ UNCHANGED <<probe, store, received, prom_http_requests_total,
                   prom_http_request_duration_seconds,
                   prom_db_query_duration_seconds, handled, delivered, executed, reqctx, trail>>

\* after_request: logger.info("Request completed", ...)
after_request_log(w) ==
    /\ pc[w] = "log_completed"
    /\ trail' = [trail EXCEPT ![w] = Append(@, LogEv(w, "INFO", "Request completed"))]
    /\ pc' = [pc EXCEPT ![w] = "finalize"]
    /\ UNCHANGED <<probe, store, received, registry, handled, delivered, executed, reqctx>>

\* The response leaves; the request context is torn down: the server span
\* ends and everything the request owned is dropped.
finalize(w) ==
    /\ pc[w] = "finalize"
    /\ handled' = Tally(handled, <<request[w].method, Endpoint(w), response[w].status>>)
    /\ delivered' = Append(delivered, [request |-> request[w], response |-> response[w]])
    /\ request' = [request EXCEPT ![w] = NoReq]
    /\ start_time' = [start_time EXCEPT ![w] = Unset]
    /\ prom_start_time' = [prom_start_time EXCEPT ![w] = Unset]
    /\ span_stack' = [span_stack EXCEPT ![w] = end_span(@)]
    /\ response' = [response EXCEPT ![w] = NoResp]
    /\ trail' = [trail EXCEPT ![w] = <<>>]
    /\ pc' = [pc EXCEPT ![w] = "idle"]
    /\ UNCHANGED <<probe, store, received, registry, executed>>

\* ------------------------------------------------------- specifications
InitWith(stores) ==
    /\ store \in stores
    /\ received = 0
    /\ prom_http_requests_total = EmptyFn
    /\ prom_http_request_duration_seconds = EmptyFn
    /\ prom_http_errors_total = EmptyFn
    /\ prom_db_query_duration_seconds = EmptyFn
    /\ handled = EmptyFn
    /\ delivered = <<>>
    /\ executed = EmptyFn
    /\ pc = [w \in Workers |-> "idle"]
    /\ request = [w \in Workers |-> NoReq]
    /\ start_time = [w \in Workers |-> Unset]
    /\ prom_start_time = [w \in Workers |-> Unset]
    /\ span_stack = [w \in Workers |-> <<>>]
    /\ response = [w \in Workers |-> NoResp]
    /\ trail = [w \in Workers |-> <<>>]

InitService == InitWith(InitStores)

NoProbe == [statement |-> <<>>, context |-> NoContext, done |-> TRUE]

Init == InitService /\ probe = NoProbe

\* The middleware around the view.
Middleware(w) ==
    \/ before_request(w)
    \/ after_request_count(w)
    \/ after_request_duration(w)
    \/ after_request_errors(w)
    \/ after_request_log(w)
    \/ finalize(w)

\* Everything a worker does for the request it holds.
Serve(w) ==
    \/ Middleware(w)
    \/ routing_exception(w)
    \/ health_check(w)
    \/ get_tasks(w)
    \/ get_task(w)
    \/ create_task(w)
    \/ update_task(w)
    \/ delete_task(w)
    \/ simulate_error(w)
    \/ simulate_slow(w)
    \/ metrics(w)
    \/ db_smoke(w)

\* Requests handled one after another by a single worker.
Next ==
    \/ \E r \in Requests : Receive(1, r)
    \/ Serve(1)
Spec == Init /\ [][Next]_vars

\* One request of every endpoint and of every way out of a view: a normal
\* return, an error the view answers itself, an exception nothing handles, a
\* path or method the router refuses.
ExitRequests ==
    {Plain("GET", <<"health">>), Plain("GET", <<"api", "tasks">>),
     Plain("GET", <<"api", "tasks", "1">>), Plain("DELETE", <<"api", "tasks", "1">>),
     Plain("GET", <<"api", "simulate-error">>), Plain("GET", <<"metrics">>),
     Plain("GET", <<"nope">>),
     Req("POST", <<"api", "tasks">>, Body("object", {}), NoArg, NoArg, NoArg),
     Req("PUT", <<"api", "tasks", "999999">>, Body("object", {"title"}), NoArg, NoArg, NoArg),
     Req("GET", <<"api", "simulate-slow">>, NoBody, "abc", NoArg, NoArg),
     Req("POST", <<"api", "smoke", "db">>, NoBody, NoArg, "x", NoArg)}

\* A single worker that never stops in the middle of a request: every view
\* returns or raises, and the hooks around it run to their end.
FairNext ==
    \/ \E r \in ExitRequests : Receive(1, r)
    \/ Serve(1)
FairSpec == Init /\ [][FairNext]_vars /\ WF_vars(Serve(1))

\* Requests handled concurrently by independent workers.
ConcRequests ==
    {Plain("GET", <<"health">>), Plain("GET", <<"api", "simulate-error">>),
     Plain("GET", <<"api", "tasks">>), Plain("GET", <<"nope">>)}
ConcNext ==
    \E w \in Workers :
        \/ \E r \in ConcRequests : Receive(w, r)
        \/ Middleware(w)
        \/ routing_exception(w)
        \/ health_check(w)
        \/ get_tasks(w)
        \/ simulate_error(w)
ConcSpec == Init /\ [][ConcNext]_vars

\* The exit hook for a request whose entry hook did not run: a before_request
\* function registered ahead of the application's (FlaskInstrumentor's) raised
\* or answered, so Flask skipped before_request and the view, and hands the
\* 500 to after_request with no timing state on request or g.
before_request_skipped(w) ==
    /\ pc[w] = "before_request"
    /\ response' = [response EXCEPT ![w] = ErrorResp(500, "Internal Server Error")]
    /\ pc' = [pc EXCEPT ![w] = "after_request"]
    /\ UNCHANGED <<probe, store, received, registry, handled, delivered, executed,
                   request, start_time, prom_start_time, span_stack, trail>>

HookRequests ==
    {Plain("GET", <<"health">>), Plain("GET", <<"api", "simulate-error">>),
     Plain("GET", <<"api", "tasks">>), Plain("GET", <<"nope">>)}
HookNext ==
    \/ \E r \in HookRequests : Receive(1, r)
    \/ before_request_skipped(1)
    \/ Middleware(1)
    \/ routing_exception(1)
    \/ health_check(1)
    \/ get_tasks(1)
    \/ simulate_error(1)
HookSpec == Init /\ [][HookNext]_vars

\* Reads of the task store, one request more than the other runs admit, with
\* one write among the requests.
ReadBudget == MaxRequests + 1
ReadRequests ==
    {Plain("GET", <<"api", "tasks">>), Plain("GET", <<"api", "tasks", "1">>),
     Plain("GET", <<"api", "tasks", "999999">>), Plain("GET", <<"health">>),
     Plain("DELETE", <<"api", "tasks", "1">>)}
ReceiveRead(w, r) == received < ReadBudget /\ Accept(w, r)
ReadNext ==
    \/ \E r \in ReadRequests : ReceiveRead(1, r)
    \/ Middleware(1)
    \/ health_check(1)
    \/ get_tasks(1)
    \/ get_task(1)
    \/ delete_task(1)
ReadSpec == Init /\ [][ReadNext]_vars

\* Requests that differ in their raw paths and record ids, one more than the
\* other runs admit: several ids of one route, paths no rule matches (a bare
\* id among them), static files, and methods the matched rule does not allow.
LabelBudget == MaxRequests + 1
LabelRequests ==
    {Plain("GET", <<"api", "tasks", i>>) : i \in {"1", "2", "999999"}}
    \cup {Plain("GET", <<"api", "tasks", "abc">>), Plain("GET", <<"nope">>),
          Plain("GET", <<"1">>), Plain("GET", <<"static", "app.js">>),
          Plain("GET", <<"static", "css", "1">>), Plain("POST", <<"health">>),
          Plain("BREW", <<"api", "tasks", "1">>), Plain("DELETE", <<"api", "tasks", "1">>)}
ReceiveLabel(w, r) == received < LabelBudget /\ Accept(w, r)
LabelNext ==
    \/ \E r \in LabelRequests : ReceiveLabel(1, r)
    \/ Middleware(1)
    \/ routing_exception(1)
    \/ get_task(1)
    \/ delete_task(1)
    \/ send_static_file(1)
LabelSpec == Init /\ [][LabelNext]_vars

\* Smoke tests with every kind of ops and type argument, over tables that may
\* already hold a task whose title the smoke DELETE matches, and reads of the
\* table around them.
SmokeStores ==
    InitStores \cup {(1 :> Task("smoke-mine", "b", FALSE, 0)) @@ (2 :> Task("a", "b", FALSE, 0)),
                     (1 :> Task("SMOKE-OLD", "", TRUE, 0))}
SmokeRequests ==
    {Req("POST", <<"api", "smoke", "db">>, NoBody, NoArg, o, t) :
        o \in {"0", "1", "2", "3", "-1", "x"}, t \in {NoArg, "READ", "write", "zz"}}
    \cup {Plain("GET", <<"api", "tasks">>)}
InitSmoke == InitWith(SmokeStores) /\ probe = NoProbe
SmokeNext ==
    \/ \E r \in SmokeRequests : Receive(1, r)
    \/ Middleware(1)
    \/ get_tasks(1)
    \/ db_smoke(1)
SmokeSpec == InitSmoke /\ [][SmokeNext]_vars

\* The cursor hooks on their own: _after_cursor_execute run for any statement
\* text, with or without the start instant _before_cursor_execute attaches.
LowerChar(c) ==
    IF \E i \in 1..26 : UpperCase[i] = c
    THEN LowerCase[CHOOSE i \in 1..26 : UpperCase[i] = c]
    ELSE c
Lower(s) == [i \in 1..Len(s) |-> LowerChar(s[i])]
Capitalized(s) == [i \in 1..Len(s) |-> IF i = 1 THEN s[i] ELSE LowerChar(s[i])]

KwPragma == <<"P", "R", "A", "G", "M", "A">>
KwBegin == <<"B", "E", "G", "I", "N">>
KwWith == <<"W", "I", "T", "H">>
KwCreate == <<"C", "R", "E", "A", "T", "E">>
Keywords == {KwSelect, KwInsert, KwUpdate, KwDelete, KwPragma, KwBegin, KwWith,
             KwCreate, <<>>}
Leads == {<<>>, <<" ">>, <<"\n", " ">>, <<"\t">>}
Tails == {<<>>, <<" ">>, SqlTail}
Texts == {lead \o word \o tail :
            lead \in Leads,
            word \in UNION {{k, Lower(k), Capitalized(k)} : k \in Keywords},
            tail \in Tails}

InitTimer ==
    /\ InitService
    /\ probe \in [statement : Texts,
                  context : {NoContext, before_cursor_execute(NoContext)},
                  done : {FALSE}]

after_hook_alone ==
    /\ ~probe.done
    /\ prom_db_query_duration_seconds' =
           after_cursor_execute(prom_db_query_duration_seconds,
                                probe.statement, probe.context)
    /\ probe' = [probe EXCEPT !.done = TRUE]
    /\ UNCHANGED <<store, received, httpSeries, handled, delivered, executed, pc, reqctx, trail>>

TimerNext == after_hook_alone
TimerSpec == InitTimer /\ [][TimerNext]_vars

\* =================================================================== claims
\* The series a delivered response belongs to: its method, its matched
\* endpoint or "unknown", its status code.
SeriesKey(h) == <<h[1], IF h[2] = NoEndpoint THEN "unknown" ELSE h[2], Str3(h[3])>>
RequestKey(w) == SeriesKey(<<request[w].method, Endpoint(w), response[w].status>>)

\* Responses delivered so far that belong to series k; those among them with
\* a status >= 400.
HandledAs(k) == SumOver(handled, {h \in DOMAIN handled : SeriesKey(h) = k})
HandledErrorsAs(k) ==
    SumOver(handled, {h \in DOMAIN handled : SeriesKey(h) = k /\ h[3] >= 400})

\* The workers whose request belongs to series k and is at one of the
\* positions pcs.
At(pcs, k) == {w \in Workers : pc[w] \in pcs /\ RequestKey(w) = k}
Responding == {"after_request", "observe_duration", "inc_errors",
               "log_completed", "finalize"}
KeysInUse ==
    DOMAIN prom_http_requests_total \cup DOMAIN prom_http_request_duration_seconds
    \cup DOMAIN prom_http_errors_total \cup {SeriesKey(h) : h \in DOMAIN handled}
    \cup {RequestKey(w) : w \in {v \in Workers : pc[v] \in Responding}}
AllIdle == \A w \in Workers : pc[w] = "idle"

\* C1: the request counter is the number of requests handled, series by
\* series: in every state each http_requests_total series counts the
\* responses delivered for its (method, endpoint or "unknown", status) plus
\* the requests of that series that are past the increment and not yet
\* delivered, and the sum over all series is the number of such requests.
C1_RequestCountPartition ==
    LET counted == {"observe_duration", "inc_errors", "log_completed", "finalize"} IN
    /\ \A k \in KeysInUse :
         Val(prom_http_requests_total, k) = HandledAs(k) + Cardinality(At(counted, k))
    /\ Total(prom_http_requests_total)
         = Total(handled) + Cardinality({w \in Workers : pc[w] \in counted})

\* Two requests delivered, one of them on a path no route matches.
C1_Witness ==
    /\ AllIdle
    /\ Total(handled) = 2
    /\ Val(prom_http_requests_total, <<"GET", "unknown", "404">>) = 1
    /\ Val(prom_http_requests_total, <<"POST", "create_task", "201">>) = 1

\* C2: the error counter counts exactly the responses with status >= 400,
\* series by series: each http_errors_total series counts the delivered
\* responses of its labels whose status is >= 400 (400 included) plus the
\* requests of that series past the increment; a status < 400 adds nothing.
C2_ErrorCount ==
    \A k \in KeysInUse :
        Val(prom_http_errors_total, k)
          = HandledErrorsAs(k)
            + Cardinality({w \in At({"log_completed", "finalize"}, k) :
                             response[w].status >= 400})

\* A 400 has been counted as an error and a 200 has not.
C2_Witness ==
    /\ AllIdle
    /\ Val(prom_http_errors_total, <<"POST", "create_task", "400">>) = 1
    /\ Val(prom_http_requests_total, <<"GET", "health_check", "200">>) = 1
    /\ Total(prom_http_errors_total) = 1

\* What changed in the three HTTP metrics or in the DB histogram.
Accounting == {"after_request", "observe_duration", "inc_errors", "log_completed"}
Stepped(w) == pc'[w] # pc[w]
NewEvents(w) == SubSeq(trail'[w], Len(trail[w]) + 1, Len(trail'[w]))
SpanOrDbStep ==
    \/ executed' # executed
    \/ prom_db_query_duration_seconds' # prom_db_query_duration_seconds
    \/ span_stack' # span_stack
    \/ \E w \in Workers :
         /\ Len(trail'[w]) > Len(trail[w])
         /\ \E i \in DOMAIN NewEvents(w) :
              NewEvents(w)[i].ev \in {"span_start", "span_end", "span_exception",
                                      "span_status_error", "span_attribute"}

C3_OneObservation ==
    \A k \in KeysInUse :
        LET observed == Cardinality(At({"inc_errors", "log_completed", "finalize"}, k)) IN
        /\ Val(prom_http_request_duration_seconds, k) = HandledAs(k) + observed
        /\ Val(prom_http_errors_total, k) <= HandledAs(k) + observed
C3_Separation ==
    /\ SpanOrDbStep => httpSeries' = httpSeries
    /\ \A w \in Workers :
         Stepped(w) /\ pc[w] \in Accounting \cup {"before_request", "finalize"}
           => /\ prom_db_query_duration_seconds' = prom_db_query_duration_seconds
              /\ executed' = executed

\* C3: each completed request leaves exactly one duration observation and at
\* most one error increment, whatever spans it opened and statements it ran:
\* every duration series counts the responses of its labels (delivered or past
\* the observation), no error series counts more, a step that runs a
\* statement or touches a span changes no HTTP series, and a step of the
\* request hooks changes no DB-duration series.
C3_HttpAndDbSeparate == []C3_OneObservation /\ [][C3_Separation]_vars

\* An update answered 200 after three timed statements inside its own span.
C3_Witness ==
    /\ pc[1] = "finalize"
    /\ Endpoint(1) = "update_task"
    /\ response[1].status = 200
    /\ Total(executed) = 3
    /\ \E i \in DOMAIN trail[1] : trail[1][i].ev = "span_end"
    /\ Total(prom_http_request_duration_seconds) = 1
    /\ Total(prom_http_errors_total) = 0

\* The accounting of the request worker w holds has been done once: one count,
\* one observation, one error increment if the status is >= 400 and none
\* otherwise, one "Request completed" record.
Accounted(w) ==
    /\ pc[w] = "finalize"
    /\ LET k == RequestKey(w) IN
       /\ Val(prom_http_requests_total, k) = HandledAs(k) + 1
       /\ Val(prom_http_request_duration_seconds, k) = HandledAs(k) + 1
       /\ Val(prom_http_errors_total, k)
            = HandledErrorsAs(k) + (IF response[w].status >= 400 THEN 1 ELSE 0)
    /\ Cardinality({i \in DOMAIN trail[w] : trail[w][i].name = "Request completed"}) = 1
RaisesInView(w) ==
    \/ Endpoint(w) = "simulate_slow" /\ request[w].delay = "abc"
    \/ Endpoint(w) = "db_smoke" /\ request[w].ops = "x"

\* C4: every request that entered the pipeline eventually has its completion
\* accounting done exactly once, on every exit path; a request whose view
\* raises an exception nothing handles ends accounted as the 500 produced
\* (worker 1 is the worker of the fair specification).
C4_AccountingEventually ==
    (pc[1] = "before_request")
        ~> (Accounted(1) /\ (RaisesInView(1) => response[1].status = 500))

\* simulate_slow with an unparsable delay, accounted as a 500.
C4_Witness ==
    /\ Accounted(1)
    /\ Endpoint(1) = "simulate_slow"
    /\ request[1].delay = "abc"
    /\ response[1].status = 500
    /\ Val(prom_http_errors_total, <<"GET", "simulate_slow", "500">>) = 1

\* C5: with requests handled concurrently no update is lost: in every state,
\* under every interleaving, each counter and each histogram series holds
\* what handling the same requests one after another gives: one per response
\* of its labels (delivered, or past that update), one error per such
\* response with status >= 400, one DB observation per executed statement.
C5_NoLostUpdate ==
    /\ \A k \in KeysInUse :
         /\ Val(prom_http_requests_total, k)
              = HandledAs(k) + Cardinality(At({"observe_duration", "inc_errors",
                                               "log_completed", "finalize"}, k))
         /\ Val(prom_http_request_duration_seconds, k)
              = HandledAs(k) + Cardinality(At({"inc_errors", "log_completed",
                                               "finalize"}, k))
         /\ Val(prom_http_errors_total, k)
              = HandledErrorsAs(k)
                + Cardinality({w \in At({"log_completed", "finalize"}, k) :
                                 response[w].status >= 400})
    /\ Total(prom_db_query_duration_seconds) = Total(executed)

\* Two workers were at the same update of the same series together, and both
\* increments are there.
C5_Witness ==
    /\ pc[1] = "log_completed"
    /\ pc[2] = "log_completed"
    /\ RequestKey(1) = <<"GET", "simulate_error", "500">>
    /\ RequestKey(2) = RequestKey(1)
    /\ Val(prom_http_errors_total, RequestKey(1)) = 2
    /\ Val(prom_http_requests_total, RequestKey(1)) = 2

\* The trace ids of the log records of one request.
TraceIds(w, message) ==
    {trail[w][i].trace : i \in {j \in DOMAIN trail[w] :
                                  trail[w][j].ev = "log" /\ trail[w][j].name = message}}

\* C6: a request's "Request completed" record carries the trace id of its
\* "Incoming request" record, also with other requests in flight: the two ids
\* are equal, they are a real trace id, and no other request in flight
\* carries them.
C6_TraceIdStable ==
    \A w \in Workers :
        /\ \A a \in TraceIds(w, "Incoming request") :
             /\ a # Hex(0, 32)
             /\ \A b \in TraceIds(w, "Request completed") : a = b
             /\ \A v \in Workers \ {w} :
                  a \notin TraceIds(v, "Incoming request")
                               \cup TraceIds(v, "Request completed")

\* Both workers have written both records of their requests.
C6_Witness ==
    \A w \in Workers :
        /\ pc[w] = "finalize"
        /\ TraceIds(w, "Incoming request") # {}
        /\ TraceIds(w, "Request completed") # {}

\* Statements executed so far that the classifier puts under operation op.
ExecutedAs(op) == SumOver(executed, {q \in DOMAIN executed : Classify(q) = op})

\* C7: the DB-duration histogram holds one observation per statement executed
\* through the engine, under the label the statement is classified as, and
\* none twice: the total equals the number of executed statements and each
\* operation series equals the number of executed statements of that class.
C7_DbObservationCount ==
    /\ Total(prom_db_query_duration_seconds) = Total(executed)
    /\ \A k \in DOMAIN prom_db_query_duration_seconds \cup
                {<<Classify(q)>> : q \in DOMAIN executed} :
         Val(prom_db_query_duration_seconds, k) = ExecutedAs(k[1])

\* An update of a row (SELECT, UPDATE, SELECT) then a smoke run (SELECT,
\* INSERT, DELETE).
C7_Witness ==
    /\ AllIdle
    /\ Val(prom_db_query_duration_seconds, <<"SELECT">>) = 3
    /\ Val(prom_db_query_duration_seconds, <<"UPDATE">>) = 1
    /\ Val(prom_db_query_duration_seconds, <<"INSERT">>) = 1
    /\ Val(prom_db_query_duration_seconds, <<"DELETE">>) = 1

\* The reference mapping: the statement without its surrounding whitespace,
\* its leading keyword (the text up to the first whitespace), case ignored.
RStrip(s) ==
    LET keep == {i \in 1..Len(s) : s[i] \notin Whitespace} IN
    IF keep = {} THEN <<>> ELSE SubSeq(s, 1, MaxOf(keep))
LeadingKeyword(statement) ==
    LET s == RStrip(LStrip(statement))
        blanks == {i \in 1..Len(s) : s[i] \in Whitespace}
    IN Upper(IF blanks = {} THEN s
             ELSE SubSeq(s, 1, (CHOOSE i \in blanks : \A j \in blanks : i <= j) - 1))
ReferenceOp(statement) ==
    LET kw == LeadingKeyword(statement) IN
    IF kw = KwSelect THEN "select"
    ELSE IF kw = KwInsert THEN "insert"
    ELSE IF kw = KwUpdate THEN "update"
    ELSE IF kw = KwDelete THEN "delete"
    ELSE "other"
Upper4(op) ==
    CASE op = "select" -> "SELECT"
      [] op = "insert" -> "INSERT"
      [] op = "update" -> "UPDATE"
      [] op = "delete" -> "DELETE"
      [] OTHER -> op
\* A label of the histogram, case ignored.
FoldLabel(label) ==
    CASE label = "SELECT" -> "select"
      [] label = "INSERT" -> "insert"
      [] label = "UPDATE" -> "update"
      [] label = "DELETE" -> "delete"
      [] label = "OTHER" -> "other"
      [] OTHER -> label

\* C8: the classifier agrees with the reference mapping for every statement
\* text: the one observation the after-hook records for a statement is under
\* the operation of the statement's leading keyword (SELECT, INSERT, UPDATE,
\* DELETE), and under "other" for any other statement.
C8_ClassifierMatchesReference ==
    probe.done /\ probe.context # NoContext
        => \A k \in DOMAIN prom_db_query_duration_seconds :
             FoldLabel(k[1]) = ReferenceOp(probe.statement)

\* The statements the two agree on: those the reference maps to one of the
\* four operations.
C8_AgreesOnFourOperations ==
    probe.done /\ probe.context # NoContext
               /\ ReferenceOp(probe.statement) # "other"
        => DOMAIN prom_db_query_duration_seconds
             = {<<Upper4(ReferenceOp(probe.statement))>>}

\* The by-request view of a request that fails create_task's validation.
CreateKey == <<"POST", "create_task", "400">>
LacksTitle(w) ==
    /\ request[w].method = "POST"
    /\ request[w].path = <<"api", "tasks">>
    /\ \/ request[w].body.json # "object"
       \/ "title" \notin request[w].body.has
\* Series c2 is series c with one more under key k and nothing else changed.
PlusOne(c, c2, k) ==
    /\ DOMAIN c2 = DOMAIN c \cup {k}
    /\ \A j \in DOMAIN c2 : c2[j] = Val(c, j) + (IF j = k THEN 1 ELSE 0)

\* C9 as stated: a POST /api/tasks without a title is answered 400 "Title is
\* required", and all it changes in the metrics is one request count and one
\* duration observation of its (POST, create_task, 400) series: no other
\* series moves, the error counter included; no DB observation; same store.
C9_OnlyCountAndDuration ==
    [][\A w \in Workers : LacksTitle(w) /\ Stepped(w) =>
         /\ store' = store
         /\ prom_db_query_duration_seconds' = prom_db_query_duration_seconds
         /\ prom_http_errors_total' = prom_http_errors_total
         /\ pc[w] = "dispatch" =>
              response'[w] = ErrorResp(400, "Title is required")
         /\ prom_http_requests_total' # prom_http_requests_total =>
              PlusOne(prom_http_requests_total, prom_http_requests_total', CreateKey)
         /\ prom_http_request_duration_seconds' # prom_http_request_duration_seconds =>
              PlusOne(prom_http_request_duration_seconds,
                      prom_http_request_duration_seconds', CreateKey)]_vars

\* C9, amended: a POST /api/tasks without a title is answered 400 "Title is
\* required"; its metric changes are exactly one request count, one duration
\* observation and one error count, each in the (POST, create_task, 400)
\* series and each made by its own step of after_request; no other series
\* moves, no DB observation is recorded, and the store is unchanged.
C9_CountDurationAndError ==
    [][\A w \in Workers : LacksTitle(w) /\ Stepped(w) =>
         /\ store' = store
         /\ prom_db_query_duration_seconds' = prom_db_query_duration_seconds
         /\ executed' = executed
         /\ CASE pc[w] = "dispatch" ->
                   /\ response'[w] = ErrorResp(400, "Title is required")
                   /\ pc'[w] = "after_request"
                   /\ httpSeries' = httpSeries
              [] pc[w] = "after_request" ->
                   /\ PlusOne(prom_http_requests_total, prom_http_requests_total', CreateKey)
                   /\ pc'[w] = "observe_duration"
                   /\ UNCHANGED <<prom_http_request_duration_seconds, prom_http_errors_total>>
              [] pc[w] = "observe_duration" ->
                   /\ PlusOne(prom_http_request_duration_seconds,
                              prom_http_request_duration_seconds', CreateKey)
                   /\ pc'[w] = "inc_errors"
                   /\ UNCHANGED <<prom_http_requests_total, prom_http_errors_total>>
              [] pc[w] = "inc_errors" ->
                   /\ PlusOne(prom_http_errors_total, prom_http_errors_total', CreateKey)
                   /\ pc'[w] = "log_completed"
                   /\ UNCHANGED <<prom_http_requests_total, prom_http_request_duration_seconds>>
              [] OTHER -> httpSeries' = httpSeries]_vars

\* A POST /api/tasks with the body {} answered 400 and fully accounted.
C9_Witness ==
    /\ pc[1] = "finalize"
    /\ LacksTitle(1)
    /\ request[1].body = Body("object", {})
    /\ response[1] = ErrorResp(400, "Title is required")
    /\ store # EmptyFn
    /\ prom_http_requests_total = (CreateKey :> 1)
    /\ prom_http_request_duration_seconds = (CreateKey :> 1)
    /\ prom_http_errors_total = (CreateKey :> 1)
    /\ prom_db_query_duration_seconds = EmptyFn

\* A PUT or DELETE of /api/tasks/<id> whose id names no row.
WriteToMissing(w) ==
    /\ request[w].method \in {"PUT", "DELETE"}
    /\ Len(request[w].path) = 3
    /\ SubSeq(request[w].path, 1, 2) = <<"api", "tasks">>
    /\ IsInt(request[w].path[3])
    /\ IntOf[request[w].path[3]] \notin DOMAIN store
WriteOps == {<<"INSERT">>, <<"UPDATE">>, <<"DELETE">>}

\* C10: a PUT or DELETE addressed to an id with no record is answered 404
\* "Task not found" once its lookup has run (a lookup the database refuses
\* is answered 500), and no step of the request records a DB-duration sample
\* of a write operation or changes the store.
C10_MissingIdWrite ==
    [][\A w \in Workers : WriteToMissing(w) /\ Stepped(w) =>
         /\ store' = store
         /\ \A k \in WriteOps :
              Val(prom_db_query_duration_seconds', k)
                = Val(prom_db_query_duration_seconds, k)
         /\ pc[w] = "dispatch" /\ executed' # executed =>
              response'[w] = ErrorResp(404, "Task not found")]_vars

\* PUT /api/tasks/999999 answered 404 after its lookup, the table not empty.
C10_Witness ==
    /\ pc[1] = "finalize"
    /\ request[1].method = "PUT"
    /\ request[1].path = <<"api", "tasks", "999999">>
    /\ response[1] = ErrorResp(404, "Task not found")
    /\ store # EmptyFn
    /\ prom_db_query_duration_seconds = (<<"SELECT">> :> 1)

\* A view step of worker w that answers with the given status.
Answers(w, endpoint, status) ==
    /\ pc[w] = "dispatch"
    /\ Stepped(w)
    /\ Endpoint(w) = endpoint
    /\ response'[w].status = status
SuppliedValue(f) ==
    CASE f = "title" -> BodyTitle
      [] f = "description" -> BodyDescription
      [] f = "completed" -> BodyCompleted

\* C11: a successful PUT /api/tasks/{id} changes only the fields its body
\* supplies: the addressed row keeps its id and created_at and every field
\* the body does not hold, a supplied field takes the supplied value, the
\* store keeps the same ids, and every other row is unchanged.
C11_PartialUpdate ==
    [][\A w \in Workers : Answers(w, "update_task", 200) =>
         LET id == ViewId(w)
             has == request[w].body.has
         IN /\ id \in DOMAIN store
            /\ DOMAIN store' = DOMAIN store
            /\ \A i \in DOMAIN store \ {id} : store'[i] = store[i]
            /\ store'[id].created_at = store[id].created_at
            /\ \A f \in Fields \ has : store'[id][f] = store[id][f]
            /\ \A f \in has : store'[id][f] = SuppliedValue(f)
            /\ response'[w].tasks = <<to_dict(id, store'[id])>>]_vars

\* A PUT that supplied only completed, answered 200, with a second row in the
\* store: the title and description of row 1 are still those it had.
C11_Witness ==
    /\ pc[1] = "finalize"
    /\ Endpoint(1) = "update_task"
    /\ response[1].status = 200
    /\ request[1].body = Body("object", {"completed"})
    /\ DOMAIN store = {1, 2}
    /\ store[1] = Task("a", "b", TRUE, 0)

\* The view of worker w raised an exception that its except block caught:
\* the block records it on the span.
CaughtException(w) ==
    /\ pc[w] = "dispatch"
    /\ Stepped(w)
    /\ \E i \in DOMAIN NewEvents(w) : NewEvents(w)[i].ev = "span_exception"
WriteViews == {"create_task", "update_task", "delete_task"}

\* C12: an exception during a write handler rolls the write back and is
\* answered 500: the store after the failed request is the store before it;
\* a write answered with success is in the store (the created row under a
\* new id, the deleted row gone).
C12_RollbackOnException ==
    [][\A w \in Workers :
         /\ CaughtException(w) /\ Endpoint(w) \in WriteViews =>
              /\ response'[w].status = 500
              /\ store' = store
         /\ Answers(w, "create_task", 201) =>
              /\ DOMAIN store' = DOMAIN store \cup {NewId(store)}
              /\ response'[w].tasks = <<to_dict(NewId(store), store'[NewId(store)])>>
         /\ Answers(w, "delete_task", 200) =>
              DOMAIN store' = DOMAIN store \ {ViewId(w)}]_vars

\* What does hold: a write handler that answers 500 has either left the store
\* as it was or failed after its commit; the row it then leaves is the one a
\* success would have left.
C12_FailureAfterCommitOnly ==
    [][\A w \in Workers :
         CaughtException(w) /\ Endpoint(w) \in WriteViews =>
              /\ response'[w].status = 500
              /\ \/ store' = store
                 \/ /\ Endpoint(w) = "create_task"
                    /\ DOMAIN store' = DOMAIN store \cup {NewId(store)}
                    /\ Classify(SqlInsert) \in {Classify(q) : q \in DOMAIN executed'}
                 \/ /\ Endpoint(w) = "update_task"
                    /\ store' = [store EXCEPT
                                   ![ViewId(w)] = Assigned(@, request[w].body)]]_vars

\* The exchanges completed so far, by what they were.
IsCreated(x) ==
    /\ x.request.method = "POST"
    /\ x.request.path = <<"api", "tasks">>
    /\ x.response.status = 201
IsGetOf(x, id) ==
    /\ x.request.method = "GET"
    /\ Len(x.request.path) = 3
    /\ SubSeq(x.request.path, 1, 2) = <<"api", "tasks">>
    /\ IsInt(x.request.path[3])
    /\ IntOf[x.request.path[3]] = id
IsWriteOf(x, id) ==
    /\ x.request.method \in {"PUT", "DELETE"}
    /\ Len(x.request.path) = 3
    /\ SubSeq(x.request.path, 1, 2) = <<"api", "tasks">>
    /\ IsInt(x.request.path[3])
    /\ IntOf[x.request.path[3]] = id
\* A response the database did not refuse.
Served(x) == x.response.status # 500

\* C13: round trip: a GET /api/tasks/{id} that follows a successful POST
\* /api/tasks with a title and a description, for the id the POST returned
\* and with no update or delete of that id in between, returns (unless the
\* database refuses the lookup) 200 with the title and description that were
\* posted, completed = false when none was posted, and the id and created_at
\* the POST returned.
C13_RoundTrip ==
    \A i, j \in DOMAIN delivered :
        LET post == delivered[i]
            get == delivered[j]
        IN  (/\ i < j
             /\ IsCreated(post)
             /\ {"title", "description"} \subseteq post.request.body.has
             /\ IsGetOf(get, post.response.tasks[1].id)
             /\ \A k \in DOMAIN delivered :
                  i < k /\ k < j => ~IsWriteOf(delivered[k], post.response.tasks[1].id)
             /\ Served(get))
            => /\ get.response.status = 200
               /\ get.response.tasks = post.response.tasks
               /\ get.response.tasks[1].title = BodyTitle
               /\ get.response.tasks[1].description = BodyDescription
               /\ "completed" \notin post.request.body.has
                    => get.response.tasks[1].completed = FALSE

\* A POST with title and description answered 201 with id 1, then a GET of
\* /api/tasks/1 answered 200.
C13_Witness ==
    /\ Len(delivered) = 2
    /\ IsCreated(delivered[1])
    /\ delivered[1].request.body = Body("object", {"title", "description"})
    /\ delivered[1].response.tasks[1].id = 1
    /\ IsGetOf(delivered[2], 1)
    /\ delivered[2].response.status = 200

IsWriteRequest(x) == x.request.method \in {"POST", "PUT", "DELETE"}
ReadViews == {"get_tasks", "get_task"}

\* Two reads of the same thing (the list, or the same id) with no write
\* request between them, neither refused by the database, got the same
\* status and the same payload.
C14_SameAnswer ==
    \A i, j \in DOMAIN delivered :
        LET a == delivered[i]
            b == delivered[j]
        IN  (/\ i < j
             /\ a.request.method = "GET"
             /\ Route("GET", a.request.path).endpoint \in ReadViews
             /\ b.request = a.request
             /\ \A k \in DOMAIN delivered : i < k /\ k < j => ~IsWriteRequest(delivered[k])
             /\ Served(a)
             /\ Served(b))
            => /\ b.response.status = a.response.status
               /\ b.response.tasks = a.response.tasks
               /\ b.response.error = a.response.error
C14_ReadsKeepStore ==
    \A w \in Workers :
        Stepped(w) /\ pc[w] = "dispatch" /\ Endpoint(w) \in ReadViews => store' = store

\* C14: reads are idempotent: no GET /api/tasks or GET /api/tasks/{id}
\* changes the store, and two such requests for the same thing with no write
\* request between them are answered with identical status and payload,
\* whatever reads come between them.
C14_ReadsIdempotent == []C14_SameAnswer /\ [][C14_ReadsKeepStore]_vars

\* GET /api/tasks/1 answered 200, then a read of the whole list, then GET
\* /api/tasks/1 again.
C14_Witness ==
    /\ Len(delivered) = 3
    /\ delivered[1].request = Plain("GET", <<"api", "tasks", "1">>)
    /\ delivered[1].response.status = 200
    /\ delivered[2].request = Plain("GET", <<"api", "tasks">>)
    /\ delivered[3].request = delivered[1].request
    /\ delivered[3].response = delivered[1].response

\* C15: the middleware takes one clock read on entry, shared by the two
\* timings: in every state of a request the start instant of the logged
\* duration equals the start instant of the histogram observation.
C15_SingleClockRead ==
    \A w \in Workers :
        HasStartTime(w) /\ HasPromStartTime(w) => start_time[w] = prom_start_time[w]

\* What does hold: the two start instants are set together by before_request,
\* the pull-metrics one by the later read.
C15_StartsOrdered ==
    \A w \in Workers :
        /\ HasStartTime(w) <=> HasPromStartTime(w)
        /\ HasStartTime(w) <=> pc[w] \notin {"idle", "before_request"}
        /\ HasStartTime(w) => start_time[w] <= prom_start_time[w]

\* The exit hook is running, or has run, for a request without timing state.
Untimed(w) == pc[w] \in {"after_request", "finalize"} /\ ~HasStartTime(w)
C16_Logged ==
    \A w \in Workers :
        pc[w] = "finalize" /\ ~HasStartTime(w) =>
            \E i \in DOMAIN trail[w] : trail[w][i].ev = "log"
C16_NothingFabricated ==
    \A w \in Workers :
        Untimed(w) /\ Stepped(w) /\ pc[w] = "after_request" =>
            /\ registry' = registry
            /\ response'[w] = response[w]
            /\ \A i \in DOMAIN trail'[w] : trail'[w][i].name # "Request completed"

\* C16: when the timing state of a request is missing at the exit hook, the
\* hook records no metric and no completion record, fabricates no duration,
\* returns the response unchanged, and emits a log record stating the
\* omission, so that the request leaves a record.
C16_OmissionLogged == []C16_Logged /\ [][C16_NothingFabricated]_vars

\* What does hold: the hook leaves the metrics and the response as they are
\* and writes nothing at all.
C16_SkippedSilently ==
    [][\A w \in Workers :
         Untimed(w) /\ Stepped(w) /\ pc[w] = "after_request" =>
            /\ registry' = registry
            /\ response'[w] = response[w]
            /\ trail'[w] = trail[w]
            /\ pc'[w] = "finalize"]_vars

CrudViews == {"get_tasks", "get_task", "create_task", "update_task", "delete_task"}
\* DB-duration observations a step adds: all of them, and those of a write.
Observed == Total(prom_db_query_duration_seconds') - Total(prom_db_query_duration_seconds)
WritesObserved ==
    SumOver(prom_db_query_duration_seconds',
            WriteOps \cap DOMAIN prom_db_query_duration_seconds')
    - SumOver(prom_db_query_duration_seconds,
              WriteOps \cap DOMAIN prom_db_query_duration_seconds)
\* The statements a view sends at most: its one write, the SELECT that looks
\* the row up, the SELECT that reloads the row after the commit.
MostStatements(endpoint) ==
    CASE endpoint = "get_tasks" -> 1
      [] endpoint = "get_task" -> 1
      [] endpoint = "create_task" -> 2
      [] endpoint = "update_task" -> 3
      [] endpoint = "delete_task" -> 2

\* C17 as stated: a CRUD request sends at most one statement through the DB
\* operation timer, so at most one DB-duration observation is recorded for it.
C17_OneStatement ==
    [][\A w \in Workers : Stepped(w) /\ Endpoint(w) \in CrudViews => Observed <= 1]_vars

\* C17, amended: a CRUD request sends at most one write statement (INSERT,
\* UPDATE or DELETE) through the timer, beside the SELECT that looks the row
\* up (update, delete) and the SELECT that reloads it after the commit
\* (create, update): at most 1 statement for a read, 2 for create and delete,
\* 3 for update, each observed once, all of them while the view runs.
C17_OneWriteStatement ==
    [][\A w \in Workers : Stepped(w) /\ Endpoint(w) \in CrudViews =>
         /\ Observed = Total(executed') - Total(executed)
         /\ Observed <= MostStatements(Endpoint(w))
         /\ WritesObserved <= 1
         /\ Endpoint(w) \in ReadViews => WritesObserved = 0
         /\ pc[w] # "dispatch" => Observed = 0]_vars

\* An update answered 200 after SELECT, UPDATE, SELECT.
C17_Witness ==
    /\ pc[1] = "finalize"
    /\ Endpoint(1) = "update_task"
    /\ response[1].status = 200
    /\ received = 1
    /\ prom_db_query_duration_seconds = (<<"SELECT">> :> 2) @@ (<<"UPDATE">> :> 1)

\* The responses the except blocks of the views make.
CaughtMessages ==
    {"Failed to retrieve tasks", "Failed to retrieve task", "Failed to create task",
     "Failed to update task", "Failed to delete task", "DB smoke test failed"}
AnswersCaught(w) ==
    /\ pc[w] = "dispatch"
    /\ Stepped(w)
    /\ response'[w].status = 500
    /\ response'[w].error \in CaughtMessages
\* The events of the step record an error on a span that was still open:
\* the exception and the error status lie between a span's start and end.
RecordedOnSpan(w) ==
    LET ev == NewEvents(w) IN
    \E a, b, c, d \in DOMAIN ev :
        /\ a < b /\ b < c /\ c < d
        /\ ev[a].ev = "span_start"
        /\ ev[b].ev = "span_exception"
        /\ ev[c].ev = "span_status_error"
        /\ ev[c].name = ev[b].name
        /\ ev[d].ev = "span_end"

\* C18: whenever a route handler catches an exception and answers with an
\* error response, the error is by then recorded on the handler's active span
\* (the exception, and status error with its message); this for every handler
\* that catches exceptions, the DB smoke endpoint included.
C18_ErrorOnSpan ==
    [][\A w \in Workers : AnswersCaught(w) => RecordedOnSpan(w)]_vars

\* What does hold: the five task handlers record it; db_smoke only logs.
C18_TaskHandlersRecord ==
    [][\A w \in Workers : AnswersCaught(w) =>
         IF Endpoint(w) = "db_smoke"
         THEN \A i \in DOMAIN NewEvents(w) : NewEvents(w)[i].ev = "log"
         ELSE RecordedOnSpan(w)]_vars

\* The after-hook runs for an execution that has no start instant.
HookWithoutStart == probe.context = NoContext /\ ~probe.done /\ probe'.done

\* C19: the after-execute hook run for an execution whose before-execute
\* hook never fired is a no-op: it returns, records no DB-duration
\* observation and leaves every metric series as it was.
C19_AfterHookNoOp ==
    /\ [][HookWithoutStart => registry' = registry]_vars
    /\ [](probe.done /\ probe.context = NoContext =>
            /\ prom_db_query_duration_seconds = EmptyFn
            /\ httpSeries = <<EmptyFn, EmptyFn, EmptyFn>>)

\* The hook has run for an INSERT with no start instant attached.
C19_Witness ==
    /\ probe.done
    /\ probe.context = NoContext
    /\ probe.statement = SqlInsert
    /\ prom_db_query_duration_seconds = EmptyFn

\* Where the records of a request are on its trail.
Positions(w, message) ==
    {i \in DOMAIN trail[w] : trail[w][i].ev = "log" /\ trail[w][i].name = message}
C20_TrailOrdered ==
    \A w \in Workers :
        /\ pc[w] \in {"idle", "before_request"} => trail[w] = <<>>
        /\ pc[w] \notin {"idle", "before_request"} => Positions(w, "Incoming request") = {1}
        /\ pc[w] = "dispatch" => Len(trail[w]) = 1 /\ response[w] = NoResp
        /\ pc[w] # "finalize" => Positions(w, "Request completed") = {}
        /\ pc[w] = "finalize" => Positions(w, "Request completed") = {Len(trail[w])}
        /\ pc[w] \in Responding => response[w] # NoResp
C20_MetricsAfterResponse ==
    \A w \in Workers : Stepped(w) =>
        IF pc[w] \in {"after_request", "observe_duration", "inc_errors"}
        THEN /\ response[w] # NoResp
             /\ response'[w] = response[w]
             /\ \A k \in KeysInUse \cup DOMAIN prom_http_requests_total'
                          \cup DOMAIN prom_http_request_duration_seconds'
                          \cup DOMAIN prom_http_errors_total' :
                  \/ k = Labels(w)
                  \/ /\ Val(prom_http_requests_total', k) = Val(prom_http_requests_total, k)
                     /\ Val(prom_http_request_duration_seconds', k)
                          = Val(prom_http_request_duration_seconds, k)
                     /\ Val(prom_http_errors_total', k) = Val(prom_http_errors_total, k)
        ELSE httpSeries' = httpSeries

\* C20: within a request the events are ordered: "Incoming request" is the
\* first record, written before the handler starts; everything the handler
\* leaves comes before "Request completed", which is the last; an HTTP metric
\* is updated only by the exit hook, when the response and its status exist,
\* under the labels of that response, and never while the handler runs.
C20_EventsOrdered == []C20_TrailOrdered /\ [][C20_MetricsAfterResponse]_vars

\* A request whose handler left span events between the two records, counted
\* after its status was known.
C20_Witness ==
    /\ pc[1] = "finalize"
    /\ Endpoint(1) = "get_tasks"
    /\ Len(trail[1]) >= 4
    /\ trail[1][2].ev = "span_start"
    /\ Val(prom_http_requests_total, <<"GET", "get_tasks", "200">>) = 1

\* The views that open a span of their own.
SpanViews == {"health_check", "get_tasks", "get_task", "create_task", "update_task",
              "delete_task", "simulate_error", "simulate_slow"}
\* Where the span events of a request are on its trail, and the span ids its
\* log records carry.
SpanMarks(w, ev) == {i \in DOMAIN trail[w] : trail[w][i].ev = ev}
SpanIds(w, message) == {trail[w][i].span : i \in Positions(w, message)}

\* C21: once a handler has left, by return or by exception, the span it
\* opened has been closed exactly once, after it was opened, and the request's
\* span is the active one again while the completion accounting runs; the
\* "Request completed" record carries the span id of the "Incoming request"
\* record, which is the request span's, and never the id of a handler's span.
C21_ChildClosedParentActive ==
    \A w \in Workers : pc[w] \in Responding =>
        /\ Len(span_stack[w]) = 1
        /\ get_current_span(w).name = "server"
        /\ Endpoint(w) \in SpanViews => Cardinality(SpanMarks(w, "span_start")) = 1
        /\ Endpoint(w) \notin SpanViews => SpanMarks(w, "span_start") = {}
        /\ \A i \in SpanMarks(w, "span_start") :
             /\ Cardinality({j \in SpanMarks(w, "span_end") :
                                trail[w][j].span = trail[w][i].span}) = 1
             /\ \A j \in SpanMarks(w, "span_end") : j > i
             /\ trail[w][i].span # Hex(get_current_span(w).id, 16)
             /\ trail[w][i].span \notin SpanIds(w, "Request completed")
        /\ Cardinality(SpanMarks(w, "span_end")) = Cardinality(SpanMarks(w, "span_start"))
        /\ SpanIds(w, "Incoming request") = {Hex(get_current_span(w).id, 16)}
        /\ SpanIds(w, "Request completed") \subseteq SpanIds(w, "Incoming request")
        /\ pc[w] = "finalize" => SpanIds(w, "Request completed") # {}

\* A create_task that left through its exception handler, and whose
\* completion record has been written.
C21_Witness ==
    /\ pc[1] = "finalize"
    /\ Endpoint(1) = "create_task"
    /\ response[1].status = 500
    /\ \E i \in DOMAIN trail[1] : trail[1][i].ev = "span_exception"
    /\ SpanMarks(1, "span_start") # {}
    /\ SpanIds(1, "Request completed") # {}

\* The label domains: the methods clients send, the endpoints of the url map
\* or "unknown", the status codes the service answers with.
Methods == {r.method : r \in Requests \cup LabelRequests}
EndpointLabels == Endpoints \cup {"unknown"}
StatusCodes == {200, 201, 400, 404, 405, 500}
HttpKeys ==
    DOMAIN prom_http_requests_total \cup DOMAIN prom_http_request_duration_seconds
    \cup DOMAIN prom_http_errors_total
C22_LabelDomain ==
    /\ \A k \in HttpKeys :
         /\ k[1] \in Methods
         /\ k[2] \in EndpointLabels
         /\ k[3] \in {Str3(c) : c \in StatusCodes}
    /\ Cardinality(HttpKeys)
         <= Cardinality(Methods) * (Cardinality(Endpoints) + 1) * Cardinality(StatusCodes)
C22_SeriesKept ==
    /\ \A k \in DOMAIN prom_http_requests_total :
         /\ k \in DOMAIN prom_http_requests_total'
         /\ prom_http_requests_total'[k] >= prom_http_requests_total[k]
    /\ \A k \in DOMAIN prom_http_request_duration_seconds :
         /\ k \in DOMAIN prom_http_request_duration_seconds'
         /\ prom_http_request_duration_seconds'[k] >= prom_http_request_duration_seconds[k]
    /\ \A k \in DOMAIN prom_http_errors_total :
         /\ k \in DOMAIN prom_http_errors_total'
         /\ prom_http_errors_total'[k] >= prom_http_errors_total[k]

\* C22: the endpoint label of every HTTP series is the endpoint of a rule of
\* the url map or "unknown", never a segment of the request path; the series
\* are at most methods x (endpoints + 1) x status codes many; and a series,
\* once created, stays and never counts less.
C22_LabelsBounded == []C22_LabelDomain /\ [][C22_SeriesKept]_vars

\* Three requests with three different record ids in their paths have been
\* counted in one and the same series.
C22_Witness ==
    /\ Len(delivered) = 3
    /\ Cardinality({delivered[i].request.path : i \in 1..3}) = 3
    /\ HttpKeys = {<<"GET", "get_task", "404">>}
    /\ prom_http_requests_total[<<"GET", "get_task", "404">>] = 3

\* The series a completed exchange was counted in; the exchanges among the
\* first n that were counted in series k, and those of them that were errors.
ExchangeKey(x) ==
    SeriesKey(<<x.request.method, Route(x.request.method, x.request.path).endpoint,
                x.response.status>>)
CountedBefore(n, k) == Cardinality({j \in 1..n : ExchangeKey(delivered[j]) = k})
ErrorsBefore(n, k) ==
    Cardinality({j \in 1..n : ExchangeKey(delivered[j]) = k
                               /\ delivered[j].response.status >= 400})
IsScrape(x) ==
    /\ Route(x.request.method, x.request.path).endpoint = "metrics"
    /\ x.response.status = 200
\* The snapshot shows exactly the first n exchanges.
ShowsFirst(snapshot, n) ==
    \A k \in DOMAIN snapshot.requests \cup DOMAIN snapshot.duration
             \cup DOMAIN snapshot.errors
             \cup {ExchangeKey(delivered[j]) : j \in DOMAIN delivered}
             \cup {<<"GET", "metrics", "200">>} :
        /\ Val(snapshot.requests, k) = CountedBefore(n, k)
        /\ Val(snapshot.duration, k) = CountedBefore(n, k)
        /\ Val(snapshot.errors, k) = ErrorsBefore(n, k)

\* C23: the snapshot a GET /metrics returns shows every request that was
\* accounted before it and not the /metrics request itself, which is
\* accounted after the render, under (GET, metrics, 200), and so shows in the
\* snapshot of the next /metrics request.
C23_SnapshotBeforeAccounting ==
    /\ \A i \in DOMAIN delivered :
         IsScrape(delivered[i]) => ShowsFirst(delivered[i].response.snapshot, i - 1)
    /\ \A w \in Workers :
         pc[w] \in Responding /\ Endpoint(w) = "metrics"
            => ShowsFirst(response[w].snapshot, Len(delivered))
    /\ \A w \in Workers :
         pc[w] = "finalize" /\ Endpoint(w) = "metrics"
            => Val(prom_http_requests_total, <<"GET", "metrics", "200">>)
                 = Val(response[w].snapshot.requests, <<"GET", "metrics", "200">>) + 1

\* Two /metrics requests in a row: the first snapshot is empty, the second
\* shows the first request and not itself.
C23_Witness ==
    /\ Len(delivered) = 2
    /\ IsScrape(delivered[1])
    /\ IsScrape(delivered[2])
    /\ delivered[1].response.snapshot.requests = EmptyFn
    /\ delivered[2].response.snapshot.requests = (<<"GET", "metrics", "200">> :> 1)
    /\ prom_http_requests_total[<<"GET", "metrics", "200">>] = 2

\* A smoke test that executed its inserts and its delete.
WroteSmoke(x) ==
    /\ Route(x.request.method, x.request.path).endpoint = "db_smoke"
    /\ x.response.status = 200
    /\ x.request.ops \in {"2", "3"}
    /\ x.request.type # "READ"
IsListing(x) ==
    /\ Route(x.request.method, x.request.path).endpoint = "get_tasks"
    /\ x.response.status = 200
C24_SmokeStep ==
    \A w \in Workers :
        Stepped(w) /\ Endpoint(w) = "db_smoke" => store' = store
C24_ListingsAgree ==
    \A i \in DOMAIN delivered :
        IsListing(delivered[i]) =>
            /\ delivered[i].response.tasks = RowDicts(store, DOMAIN store)
            /\ \A j \in DOMAIN delivered[i].response.tasks :
                 delivered[i].response.tasks[j].description # "smoke-test"

\* C24: whatever its ops and type arguments are, a POST /api/smoke/db leaves
\* the tasks table as it found it, on success and on failure: its inserts and
\* its delete are rolled back, so a later listing shows no smoke row and
\* still shows every task that was there, one with a "smoke-" title included.
C24_SmokeLeavesStore == []C24_ListingsAgree /\ [][C24_SmokeStep]_vars

\* A smoke test with two inserts and the delete has succeeded over a table
\* holding a task titled "smoke-mine", and the listing after it shows that
\* task.
C24_Witness ==
    /\ Len(delivered) = 2
    /\ WroteSmoke(delivered[1])
    /\ delivered[1].request.type = "write"
    /\ IsListing(delivered[2])
    /\ Len(delivered[2].response.tasks) = 2
    /\ delivered[2].response.tasks[1].title = "smoke-mine"

====
